---- MODULE Spec2Model ----
(***************************************************************************)
(* Pairing-and-invitation engine of the helpline bot.                      *)
(*                                                                         *)
(* The program keeps two relations in PostgreSQL, `conversations`          *)
(* (client_chat_id PRIMARY KEY, operator_chat_id NULLable) and             *)
(* `sent_invitations` ((operator_chat_id, client_chat_id) UNIQUE,          *)
(* invitation_message_id).  Every controller method opens its own          *)
(* connection (PrettyCursor), so a Coordinator call is a nest of separate  *)
(* transactions: the outer one of ConversationsController, and inside its  *)
(* body the transactions of InvitationsController.  The model keeps the    *)
(* committed relations, each caller's uncommitted writes and the table and *)
(* row locks its transactions hold; a statement that has to wait for a     *)
(* lock is an action whose guard is the lock being grantable.              *)
(***************************************************************************)
EXTENDS Integers, FiniteSets, Sequences, TLC

NUsers == 3
NProcs == 2
MaxCalls == 3

Users == 1..NUsers
Procs == 1..NProcs
\* users.is_operator: fixed while the application runs
Operators == {1, 2}
is_operator(chat_id) == chat_id \in Operators

\* Python None / SQL NULL in a (client_chat_id, operator_chat_id) pair
None == 0
NoConversing == <<None, None>>

SHARE == "SHARE"
ROW_EXCLUSIVE == "ROW EXCLUSIVE"

VARIABLES
    conversations,     \* committed rows <<client_chat_id, operator_chat_id>>
    sent_invitations,  \* committed rows <<operator_chat_id, client_chat_id, invitation_message_id>>
    notices,           \* invitation messages outstanding at the transport, same shape
    pc,                \* where each caller is
    op,                \* the Coordinator call each caller runs
    res,               \* what the call yielded
    seen,              \* the Conversing pair the call read or yielded
    tlock,             \* table locks on conversations held by the caller's outer transaction
    wr,                \* uncommitted write of the outer transaction: [del, ins]
    slock,             \* table locks on sent_invitations held by the caller's invitations transaction
    rowsh,             \* conversations rows locked FOR SHARE by the caller's requesters transaction
    who,               \* argument of the running InvitationsController call
    todo,              \* <<operator, client>> pairs still to invite
    sent,              \* the notice just delivered and not yet recorded
    pend,              \* uncommitted sent_invitations rows of the invitations transaction
    cont,              \* where the Coordinator continues after the invitations call
    calls              \* number of Coordinator calls started

vars == <<conversations, sent_invitations, notices, pc, op, res, seen, tlock, wr,
          slock, rowsh, who, todo, sent, pend, cont, calls>>

pairingVars == <<conversations, tlock, wr>>
ledgerVars == <<sent_invitations, notices, slock, rowsh, who, todo, sent, pend, cont>>

NoWrite == [del |-> {}, ins |-> {}]
NoOp == [kind |-> "-", client |-> None, operator |-> None]

Set(f, p, v) == [f EXCEPT ![p] = v]

----------------------------------------------------------------------------
(* PostgreSQL locking                                                      *)

\* LOCK TABLE ... IN SHARE MODE conflicts with the ROW EXCLUSIVE lock every
\* INSERT / UPDATE / DELETE takes, and not with another SHARE lock.
ConflictsNothing(m1, m2) == FALSE
Conflicts(m1, m2) ==
    \/ m1 = SHARE /\ m2 = ROW_EXCLUSIVE
    \/ m1 = ROW_EXCLUSIVE /\ m2 = SHARE

\* The table lock the statement at `at` asks for: <<table, mode>>.
Request(at) ==
    CASE at \in {"r_lock", "b_lock", "l_lock"} -> <<"conversations", SHARE>>
      [] at \in {"r_insert", "b_upsert", "e_delete"} -> <<"conversations", ROW_EXCLUSIVE>>
      [] at \in {"i_lock", "f_lock"} -> <<"sent_invitations", SHARE>>
      [] at \in {"i_insert", "b_clear1", "b_clear2", "b_clear3", "e_clear",
                  "c_client", "c_operator"}
            -> <<"sent_invitations", ROW_EXCLUSIVE>>
      [] OTHER -> <<"-", "-">>

Held(q, table) ==
    IF table = "conversations" THEN tlock[q]
    ELSE IF table = "sent_invitations" THEN slock[q]
    ELSE {}

\* The callers whose transactions hold a lock that conflicts with p's request.
Blockers(p) ==
    {q \in Procs \ {p} :
        \E h \in Held(q, Request(pc[p])[1]) : Conflicts(Request(pc[p])[2], h)}

Granted(p) == Blockers(p) = {}

\* The transaction that runs the statement at `at`.
TxnOf(at) ==
    CASE at \in {"r_lock", "r_insert", "b_lock", "b_upsert", "e_delete", "e_row", "l_lock"} -> "outer"
      [] at \in {"i_lock", "f_lock", "i_insert"} -> "invitations"
      [] OTHER -> "-"

HolderTxn(table) == IF table = "conversations" THEN "outer" ELSE "invitations"

\* p's statement waits for a lock of the transaction q is itself waiting in.
WaitsFor(p, q) ==
    /\ q \in Blockers(p)
    /\ TxnOf(pc[q]) = HolderTxn(Request(pc[p])[1])
    /\ Blockers(q) # {}

RECURSIVE Reach(_, _)
Reach(S, n) ==
    IF n = 0 THEN S
    ELSE Reach(S \cup {r \in Procs : \E q \in S : WaitsFor(q, r)}, n - 1)

\* PostgreSQL's deadlock detector finds p on a cycle of waiting transactions.
Deadlocked(p) ==
    /\ Blockers(p) # {}
    /\ p \in Reach({r \in Procs : WaitsFor(p, r)}, NProcs)

----------------------------------------------------------------------------
(* ConversationsController                                                 *)

\* Rows another transaction has updated or deleted and not yet committed.
WriteLocked(p) == UNION {wr[q].del : q \in Procs \ {p}}
\* Rows another caller's requesters transaction holds FOR SHARE.
ShareLockedNothing(p) == {}
ShareLocked(p) == UNION {rowsh[q] : q \in Procs \ {p}}

Touching(table, chat_id) == {r \in table : r[1] = chat_id \/ r[2] = chat_id}

\* _get_conversing_for_share: cursor.fetchone() of the rows touching chat_id,
\* or (None, None); with several rows, any one of them.
GetConversing(table, chat_id) ==
    IF Touching(table, chat_id) = {} THEN {NoConversing} ELSE Touching(table, chat_id)

\* SELECT ... FOR SHARE waits while a row it selects has an uncommitted
\* update or delete of another transaction.
CanRead(p, chat_id) == Touching(conversations, chat_id) \cap WriteLocked(p) = {}

\* request_conversation_with_locking: what the caller does with the pair read.
RequestOutcomeAlways(conversing) == "insert"
RequestOutcomeSwapped(conversing) ==
    IF conversing[1] = None THEN "insert"
    ELSE IF conversing[2] = None THEN "already_paired"
    ELSE "already_requesting"
RequestOutcome(conversing) ==
    IF conversing[1] = None THEN "insert"
    ELSE IF conversing[2] = None THEN "already_requesting"
    ELSE "already_paired"

\* begin_conversation_with_locking, "Ensure client is not operating".
ClientIsOperatingNever(conversing, client_chat_id) == FALSE
ClientIsOperating(conversing, client_chat_id) == conversing[2] = client_chat_id

\* begin_conversation_with_locking, "Ensure operator is absolutely free".
OperatorBusyNever(conversing, operator_chat_id) == "free"
OperatorBusySwapped(conversing, operator_chat_id) ==
    IF conversing[1] = None THEN "free"
    ELSE IF conversing[2] = None THEN "OPERATOR_REQUESTING"
    ELSE IF conversing[1] = operator_chat_id THEN "OPERATOR_OPERATING"
    ELSE "OPERATOR_IS_CLIENT"
OperatorBusy(conversing, operator_chat_id) ==
    IF conversing[1] = None THEN "free"
    ELSE IF conversing[2] = None THEN "OPERATOR_REQUESTING"
    ELSE IF conversing[1] = operator_chat_id THEN "OPERATOR_IS_CLIENT"
    ELSE "OPERATOR_OPERATING"

\* INSERT ... ON CONFLICT (client_chat_id) DO UPDATE SET operator_chat_id = ...
\*   WHERE conversations.operator_chat_id IS NULL
UpsertOverwrite(table, client_chat_id, operator_chat_id) ==
    [del |-> {r \in table : r[1] = client_chat_id},
     ins |-> {<<client_chat_id, operator_chat_id>>}]
Upsert(table, client_chat_id, operator_chat_id) ==
    LET old == {r \in table : r[1] = client_chat_id} IN
    IF old = {} THEN [del |-> {}, ins |-> {<<client_chat_id, operator_chat_id>>}]
    ELSE IF \E r \in old : r[2] = None
         THEN [del |-> old, ins |-> {<<client_chat_id, operator_chat_id>>}]
         ELSE NoWrite

\* cursor.rowcount of a write
RowCount(w) == IF w.ins # {} THEN Cardinality(w.ins) ELSE Cardinality(w.del)

\* DELETE FROM conversations WHERE client_chat_id = %s RETURNING operator_chat_id
DeleteReturningTouching(table, client_chat_id) ==
    [del |-> Touching(table, client_chat_id), ins |-> {}]
DeleteReturningNothing(table, client_chat_id) == NoWrite
DeleteReturning(table, client_chat_id) ==
    [del |-> {r \in table : r[1] = client_chat_id}, ins |-> {}]

\* contextmanager exit of PrettyCursor: conn.commit()
CommitNothing(table, w) == table
Commit(table, w) == (table \ w.del) \cup w.ins


----------------------------------------------------------------------------
(* InvitationsController                                                   *)

\* invite_to_client's SELECT: users LEFT OUTER JOIN conversations (the user in
\* any role) LEFT OUTER JOIN sent_invitations (to this client)
\*   WHERE users.is_operator AND users.chat_id != client
\*     AND conversations.operator_chat_id IS NULL
\*     AND sent_invitations.client_chat_id IS NULL
\* A user with no conversations row joins with NULLs; a user whose own request
\* is pending joins with a row whose operator_chat_id is NULL as well.
OperatorsToInviteAll(convs, invs, client_chat_id) ==
    {u \in Users : is_operator(u) /\ u # client_chat_id}
OperatorsToInviteAgain(convs, invs, client_chat_id) ==
    {u \in Users :
        /\ is_operator(u)
        /\ u # client_chat_id
        /\ \/ Touching(convs, u) = {}
           \/ \E r \in Touching(convs, u) : r[2] = None}
OperatorsToInviteOne(convs, invs, client_chat_id) ==
    LET all == OperatorsToInviteAgain(convs, invs, client_chat_id)
    IN  {u \in all : \A v \in all : u <= v}
OperatorsToInviteSelf(convs, invs, client_chat_id) ==
    {u \in Users :
        /\ is_operator(u)
        /\ \/ Touching(convs, u) = {}
           \/ \E r \in Touching(convs, u) : r[2] = None
        /\ ~ \E i \in invs : i[1] = u /\ i[2] = client_chat_id}
OperatorsToInvite(convs, invs, client_chat_id) ==
    {u \in Users :
        /\ is_operator(u)
        /\ u # client_chat_id
        /\ \/ Touching(convs, u) = {}
           \/ \E r \in Touching(convs, u) : r[2] = None
        /\ ~ \E i \in invs : i[1] = u /\ i[2] = client_chat_id}

\* The rows a SELECT ... FOR SHARE returns stay locked for its transaction.
ForShareNothing(rows) == {}
ForShare(rows) == rows

\* get_conversations_requesters_with_plocking's SELECT ... WHERE operator_chat_id IS NULL
RequestingAll(convs) == convs
RequestingNone(convs) == {}
Requesting(convs) == {r \in convs : r[2] = None}

AllPending == UNION {pend[q] : q \in Procs}

\* message_id of a newly sent message: one no message of that chat carries.
\* Ids are named <client, serial>; the serial is the least one not in use.
FreshSerial(o, c) ==
    LET used == {r[3] : r \in {x \in notices \cup sent_invitations \cup AllPending :
                                   x[1] = o /\ x[2] = c}}
    IN  CHOOSE k \in 1..(Cardinality(used) + 1) :
            k \notin used /\ \A j \in 1..(k - 1) : j \in used

\* delete_invitation_callback(operator_chat_id, invitation_message_id)
DeleteMessageNothing(msgs, row) == msgs
DeleteMessage(msgs, row) == msgs \ {row}

\* INSERT INTO sent_invitations ... ON CONFLICT (operator_chat_id, client_chat_id) DO NOTHING:
\* the rows the statement adds
InsertInvitation(invs, row) ==
    IF \E i \in invs : i[1] = row[1] /\ i[2] = row[2] THEN {} ELSE {row}

\* DELETE FROM sent_invitations WHERE client_chat_id = %s / operator_chat_id = %s RETURNING ...
InvitationsToClientAny(invs, client_chat_id) == invs
InvitationsToClient(invs, client_chat_id) == {i \in invs : i[2] = client_chat_id}
InvitationsForOperatorAny(invs, operator_chat_id) == invs
InvitationsForOperator(invs, operator_chat_id) == {i \in invs : i[1] = operator_chat_id}

----------------------------------------------------------------------------
Init ==
    /\ conversations = {}
    /\ sent_invitations = {}
    /\ notices = {}
    /\ pc = [p \in Procs |-> "idle"]
    /\ op = [p \in Procs |-> NoOp]
    /\ res = [p \in Procs |-> "-"]
    /\ seen = [p \in Procs |-> NoConversing]
    /\ tlock = [p \in Procs |-> {}]
    /\ wr = [p \in Procs |-> NoWrite]
    /\ slock = [p \in Procs |-> {}]
    /\ rowsh = [p \in Procs |-> {}]
    /\ who = [p \in Procs |-> None]
    /\ todo = [p \in Procs |-> {}]
    /\ sent = [p \in Procs |-> <<>>]
    /\ pend = [p \in Procs |-> {}]
    /\ cont = [p \in Procs |-> "-"]
    /\ calls = 0

FirstPc(kind) ==
    CASE kind = "request" -> "r_lock"
      [] kind = "begin" -> "b_lock"
      [] kind = "end" -> "e_delete"
      [] kind = "lock" -> "l_lock"

CoordinatorCalls ==
    {[kind |-> "request", client |-> c, operator |-> None] : c \in Users}
    \cup {[kind |-> "begin", client |-> c, operator |-> o] : c \in Users, o \in Users}
    \cup {[kind |-> "end", client |-> c, operator |-> None] : c \in Users}
    \cup {[kind |-> "lock", client |-> c, operator |-> None] : c \in Users}

\* A front-end handler invokes a Coordinator call; free workers are
\* interchangeable, so the lowest-numbered idle one takes it.
Call(p) ==
    /\ pc[p] = "idle"
    /\ calls < MaxCalls
    /\ \A q \in Procs : q < p => pc[q] # "idle"
    /\ \E o \in CoordinatorCalls :
        /\ op' = Set(op, p, o)
        /\ pc' = Set(pc, p, FirstPc(o.kind))
    /\ calls' = calls + 1
    /\ UNCHANGED <<res, seen, pairingVars, ledgerVars>>

\* The handler is over; the worker is free again.
Return(p) ==
    /\ pc[p] = "done"
    /\ pc' = Set(pc, p, "idle")
    /\ op' = Set(op, p, NoOp)
    /\ res' = Set(res, p, "-")
    /\ seen' = Set(seen, p, NoConversing)
    /\ who' = Set(who, p, None)
    /\ cont' = Set(cont, p, "-")
    /\ UNCHANGED <<pairingVars, sent_invitations, notices, slock, rowsh, todo, sent,
                   pend, calls>>

\* An exception leaves the call through every open `with`: the invitations
\* transaction (aborted by the failed statement, or never opened) is rolled
\* back, the requesters transaction ends, and PrettyCursor's `finally` commits
\* the outer transaction unless the failed statement was its own.
Raise(p, outerAborted, msgs) ==
    /\ conversations' = IF outerAborted THEN conversations ELSE Commit(conversations, wr[p])
    /\ notices' = msgs
    /\ tlock' = Set(tlock, p, {})
    /\ wr' = Set(wr, p, NoWrite)
    /\ slock' = Set(slock, p, {})
    /\ rowsh' = Set(rowsh, p, {})
    /\ pend' = Set(pend, p, {})
    /\ todo' = Set(todo, p, {})
    /\ sent' = Set(sent, p, <<>>)
    /\ res' = Set(res, p, "EXCEPTION")
    /\ pc' = Set(pc, p, "done")
    /\ UNCHANGED <<sent_invitations, op, seen, who, cont, calls>>

(* lock_conversations_and_requests_list, used as the front end would:       *)
(* lock, read get_conversing, leave                                         *)
LockAll(p) ==
    /\ pc[p] = "l_lock"
    /\ Granted(p)
    /\ tlock' = Set(tlock, p, {SHARE})
    /\ pc' = Set(pc, p, "l_read")
    /\ UNCHANGED <<conversations, wr, op, res, seen, ledgerVars, calls>>

LockedRead(p) ==
    /\ pc[p] = "l_read"
    /\ CanRead(p, op[p].client)
    /\ \E conversing \in GetConversing(conversations, op[p].client) :
        seen' = Set(seen, p, conversing)
    /\ res' = Set(res, p, "read")
    /\ pc' = Set(pc, p, "x_commit")
    /\ UNCHANGED <<pairingVars, op, ledgerVars, calls>>

(* request_conversation_with_locking                                        *)
RequestLock(p) ==
    /\ pc[p] = "r_lock"
    /\ Granted(p)
    /\ tlock' = Set(tlock, p, {SHARE})
    /\ pc' = Set(pc, p, "r_check")
    /\ UNCHANGED <<conversations, wr, op, res, seen, ledgerVars, calls>>

RequestCheck(p) ==
    /\ pc[p] = "r_check"
    /\ CanRead(p, op[p].client)
    /\ \E conversing \in GetConversing(conversations, op[p].client) :
        LET out == RequestOutcome(conversing) IN
        IF out = "insert"
        THEN /\ pc' = Set(pc, p, "r_insert")
             /\ res' = res
        ELSE /\ pc' = Set(pc, p, "x_commit")
             /\ res' = Set(res, p, out)
    /\ UNCHANGED <<pairingVars, op, seen, ledgerVars, calls>>

\* INSERT INTO conversations VALUES (client, NULL); on `created` the
\* Coordinator goes on to invite_to_client(client).
RequestInsert(p) ==
    /\ pc[p] = "r_insert"
    /\ Granted(p)
    /\ IF \E r \in conversations : r[1] = op[p].client
       THEN Raise(p, TRUE, notices)   \* duplicate key: IntegrityError
       ELSE /\ wr' = Set(wr, p, [del |-> {}, ins |-> {<<op[p].client, None>>}])
            /\ tlock' = Set(tlock, p, tlock[p] \cup {ROW_EXCLUSIVE})
            /\ res' = Set(res, p, "created")
            /\ pc' = Set(pc, p, "i_lock")
            /\ who' = Set(who, p, op[p].client)
            /\ cont' = Set(cont, p, "x_commit")
            /\ UNCHANGED <<conversations, sent_invitations, notices, op, seen, slock,
                           rowsh, todo, sent, pend, calls>>

(* begin_conversation_with_locking                                          *)
BeginLock(p) ==
    /\ pc[p] = "b_lock"
    /\ Granted(p)
    /\ tlock' = Set(tlock, p, {SHARE})
    /\ pc' = Set(pc, p, "b_client")
    /\ UNCHANGED <<conversations, wr, op, res, seen, ledgerVars, calls>>

BeginCheckClient(p) ==
    /\ pc[p] = "b_client"
    /\ CanRead(p, op[p].client)
    /\ \E conversing \in GetConversing(conversations, op[p].client) :
        IF ClientIsOperating(conversing, op[p].client)
        THEN /\ res' = Set(res, p, "CLIENT_IS_OPERATING")
             /\ pc' = Set(pc, p, "x_commit")
        ELSE /\ res' = res
             /\ pc' = Set(pc, p, "b_operator")
    /\ UNCHANGED <<pairingVars, op, seen, ledgerVars, calls>>

BeginCheckOperator(p) ==
    /\ pc[p] = "b_operator"
    /\ CanRead(p, op[p].operator)
    /\ \E conversing \in GetConversing(conversations, op[p].operator) :
        LET busy == OperatorBusy(conversing, op[p].operator) IN
        IF busy = "free"
        THEN /\ res' = res
             /\ pc' = Set(pc, p, "b_upsert")
        ELSE /\ res' = Set(res, p, busy)
             /\ pc' = Set(pc, p, "x_commit")
    /\ UNCHANGED <<pairingVars, op, seen, ledgerVars, calls>>

\* The upsert waits for the ROW EXCLUSIVE table lock and for the conflicting
\* row, if another transaction has it locked.
BeginUpsert(p) ==
    /\ pc[p] = "b_upsert"
    /\ Granted(p)
    /\ {r \in conversations : r[1] = op[p].client} \cap (WriteLocked(p) \cup ShareLocked(p)) = {}
    /\ LET w == Upsert(conversations, op[p].client, op[p].operator) IN
        /\ tlock' = Set(tlock, p, tlock[p] \cup {ROW_EXCLUSIVE})
        /\ wr' = Set(wr, p, w)
        /\ IF RowCount(w) > 0
           THEN /\ res' = Set(res, p, "OK")
                /\ pc' = Set(pc, p, "b_clear1")
           ELSE /\ res' = Set(res, p, "CLIENT_ALREADY_PAIRED")
                /\ pc' = Set(pc, p, "x_commit")
    /\ UNCHANGED <<conversations, op, seen, ledgerVars, calls>>

(* end_conversation_or_cancel_request_with_plocking                         *)
\* What the Coordinator does with the row the DELETE returned.
\* ChatBotCore.end_conversation_or_cancel_request_with_plocking:
\* `if self._users_controller.is_operator(client_chat_id)` on the ended pair
AlsoInvitesClientByOperator(row) == is_operator(row[2])
AlsoInvitesClient(row) == is_operator(row[1])

EndDeleted(p) ==
    LET w == DeleteReturning(conversations, op[p].client) IN
    IF RowCount(w) = 0
    THEN /\ res' = Set(res, p, "NONE")
         /\ seen' = Set(seen, p, NoConversing)
         /\ pc' = Set(pc, p, "x_commit")
         /\ UNCHANGED <<wr, who, cont>>
    ELSE \E row \in w.del :
         /\ wr' = Set(wr, p, w)
         /\ seen' = Set(seen, p, row)
         /\ IF row[2] = None
            THEN /\ res' = Set(res, p, "CANCELLED")
                 /\ pc' = Set(pc, p, "e_clear")
                 /\ UNCHANGED <<who, cont>>
            ELSE /\ res' = Set(res, p, "ENDED")
                 /\ pc' = Set(pc, p, "f_select")
                 /\ who' = Set(who, p, row[2])
                 /\ cont' = Set(cont, p, IF AlsoInvitesClient(row) THEN "e_invite2" ELSE "x_commit")

\* The DELETE waits for the row while another transaction has deleted it or
\* holds it FOR SHARE.
RowFreeAlways(p) == TRUE
RowFree(p) ==
    {r \in conversations : r[1] = op[p].client} \cap (WriteLocked(p) \cup ShareLocked(p)) = {}

\* DELETE takes the table's ROW EXCLUSIVE lock, then the row.
EndDelete(p) ==
    /\ pc[p] = "e_delete"
    /\ Granted(p)
    /\ tlock' = Set(tlock, p, {ROW_EXCLUSIVE})
    /\ IF RowFree(p)
       THEN EndDeleted(p)
       ELSE /\ pc' = Set(pc, p, "e_row")
            /\ UNCHANGED <<res, seen, wr, who, cont>>
    /\ UNCHANGED <<conversations, op, sent_invitations, notices, slock, rowsh, todo,
                   sent, pend, calls>>

EndDeleteRow(p) ==
    /\ pc[p] = "e_row"
    /\ RowFree(p)
    /\ EndDeleted(p)
    /\ UNCHANGED <<conversations, tlock, op, sent_invitations, notices, slock, rowsh,
                   todo, sent, pend, calls>>

\* The `with` body is over: PrettyCursor commits the outer transaction.
Exit(p) ==
    /\ pc[p] = "x_commit"
    /\ conversations' = Commit(conversations, wr[p])
    /\ tlock' = Set(tlock, p, {})
    /\ wr' = Set(wr, p, NoWrite)
    /\ pc' = Set(pc, p, "done")
    /\ UNCHANGED <<op, res, seen, ledgerVars, calls>>


(* ChatBotCore.begin_conversation_with_locking on OK, and                   *)
(* end_conversation_or_cancel_request_with_plocking on a cancelled request: *)
(* clear_invitations_to_client / clear_invitations_for_operator.  Each is   *)
(* one transaction: DELETE ... RETURNING, delete_invitation_callback for    *)
(* every row returned, commit.                                              *)
ClearedRowsNone(at, o) == {}
ClearedRowsClientOnly(at, o) == InvitationsToClient(sent_invitations, o.client)
ClearedRows(at, o) ==
    CASE at \in {"b_clear1", "e_clear", "c_client"}
            -> InvitationsToClient(sent_invitations, o.client)
      [] at \in {"b_clear2", "c_operator"}
            -> InvitationsForOperator(sent_invitations, o.operator)
      [] at = "b_clear3" -> InvitationsForOperator(sent_invitations, o.client)

AfterClearSkip(at) == IF at \in {"c_client", "c_operator"} THEN "done" ELSE "x_commit"
AfterClear(at) ==
    CASE at = "b_clear1" -> "b_clear2"
      [] at = "b_clear2" -> "b_clear3"
      [] at = "b_clear3" -> "x_commit"
      [] at = "e_clear" -> "x_commit"
      [] at \in {"c_client", "c_operator"} -> "done"

RECURSIVE DeleteMessages(_, _)
DeleteMessages(msgs, rows) ==
    IF rows = {} THEN msgs
    ELSE LET row == CHOOSE r \in rows : TRUE
         IN  DeleteMessages(DeleteMessage(msgs, row), rows \ {row})

ClearInvitations(p) ==
    /\ pc[p] \in {"b_clear1", "b_clear2", "b_clear3", "e_clear", "c_client", "c_operator"}
    /\ Granted(p)
    /\ LET rows == ClearedRows(pc[p], op[p]) IN
        /\ sent_invitations' = sent_invitations \ rows
        /\ notices' = DeleteMessages(notices, rows)
        \* `return cursor.rowcount > 0`; the Coordinator ignores it
        /\ res' = IF pc[p] \in {"c_client", "c_operator"}
                  THEN Set(res, p, IF rows # {} THEN "True" ELSE "False")
                  ELSE res
    /\ pc' = Set(pc, p, AfterClear(pc[p]))
    /\ UNCHANGED <<pairingVars, op, seen, slock, rowsh, who, todo, sent, pend, cont, calls>>

(* invite_to_client                                                         *)
InviteToClientLock(p) ==
    /\ pc[p] = "i_lock"
    /\ Granted(p)
    /\ slock' = Set(slock, p, {SHARE})
    /\ pc' = Set(pc, p, "i_query")
    /\ UNCHANGED <<pairingVars, op, res, seen, sent_invitations, notices, rowsh, who,
                   todo, sent, pend, cont, calls>>

InviteToClientSelect(p) ==
    /\ pc[p] = "i_query"
    /\ todo' = Set(todo, p, {<<o, who[p]>> :
                                o \in OperatorsToInvite(conversations, sent_invitations, who[p])})
    /\ pc' = Set(pc, p, "i_send")
    /\ UNCHANGED <<pairingVars, op, res, seen, sent_invitations, notices, slock, rowsh,
                   who, sent, pend, cont, calls>>

(* invite_for_operator: the requesters are selected FOR SHARE in a          *)
(* transaction of their own, then sent_invitations is locked                *)
InviteForOperatorSelect(p) ==
    /\ pc[p] = "f_select"
    /\ Requesting(conversations) \cap UNION {wr[q].del : q \in Procs} = {}
    /\ rowsh' = Set(rowsh, p, ForShare(Requesting(conversations)))
    /\ todo' = Set(todo, p, {<<who[p], r[1]>> : r \in Requesting(conversations)})
    /\ pc' = Set(pc, p, "f_lock")
    /\ UNCHANGED <<pairingVars, op, res, seen, sent_invitations, notices, slock, who,
                   sent, pend, cont, calls>>

InviteForOperatorLock(p) ==
    /\ pc[p] = "f_lock"
    /\ Granted(p)
    /\ slock' = Set(slock, p, {SHARE})
    /\ pc' = Set(pc, p, "i_send")
    /\ UNCHANGED <<pairingVars, op, res, seen, sent_invitations, notices, rowsh, who,
                   todo, sent, pend, cont, calls>>

(* _invite_operator_to_client                                               *)
\* send_invitation_callback: the message is delivered and its id returned, or
\* the transport fails and None is returned.
Delivered(p, pair) ==
    LET row == <<pair[1], pair[2], FreshSerial(pair[1], pair[2])>> IN
    /\ notices' = notices \cup {row}
    /\ sent' = Set(sent, p, row)
    /\ pc' = Set(pc, p, "i_insert")
    /\ todo' = todo

DeliveryFailedStops(p, pair) ==
    /\ todo' = Set(todo, p, {})
    /\ UNCHANGED <<notices, sent, pc>>

DeliveryFailed(p, pair) ==
    /\ todo' = Set(todo, p, todo[p] \ {pair})
    /\ UNCHANGED <<notices, sent, pc>>

SendInvitation(p) ==
    /\ pc[p] = "i_send"
    /\ \E pair \in todo[p] : Delivered(p, pair) \/ DeliveryFailed(p, pair)
    /\ UNCHANGED <<pairingVars, op, res, seen, sent_invitations, slock, rowsh, who,
                   pend, cont, calls>>

\* send_invitation_callback with a transport that never fails.
SendInvitationDelivered(p) ==
    /\ pc[p] = "i_send"
    /\ \E pair \in todo[p] : Delivered(p, pair)
    /\ UNCHANGED <<pairingVars, op, res, seen, sent_invitations, slock, rowsh, who,
                   pend, cont, calls>>

\* The INSERT; with rowcount 0 the message just sent is deleted again.
RecordInvitation(p) ==
    /\ pc[p] = "i_insert"
    /\ Granted(p)
    /\ slock' = Set(slock, p, slock[p] \cup {ROW_EXCLUSIVE})
    /\ LET added == InsertInvitation(sent_invitations \cup pend[p], sent[p]) IN
        /\ pend' = Set(pend, p, pend[p] \cup added)
        /\ notices' = IF added = {} THEN DeleteMessage(notices, sent[p]) ELSE notices
    /\ todo' = Set(todo, p, todo[p] \ {<<sent[p][1], sent[p][2]>>})
    /\ sent' = Set(sent, p, <<>>)
    /\ pc' = Set(pc, p, "i_send")
    /\ UNCHANGED <<pairingVars, op, res, seen, sent_invitations, rowsh, who, cont, calls>>

\* The running InvitationsController call is invite_for_operator.
InForOperator(p) == op[p].kind \in {"end", "invite_for_operator"}

\* invite_for_operator's loop is over.  `with PrettyCursor() as cursor,
\* get_conversations_requesters_with_plocking() as ...` leaves the
\* requesters context first: its transaction commits and the FOR SHARE
\* locks go, while the invitations transaction is still open.
RequestersCommit(p) ==
    /\ pc[p] = "i_send"
    /\ todo[p] = {}
    /\ InForOperator(p)
    /\ rowsh' = Set(rowsh, p, {})
    /\ pc' = Set(pc, p, "f_commit")
    /\ UNCHANGED <<pairingVars, op, res, seen, sent_invitations, notices, slock, who,
                   todo, sent, pend, cont, calls>>

\* The invitations transaction commits, and the Coordinator goes on (after
\* ENDED for a client who is an operator, with invite_for_operator(client)).
InvitationsCommit(p) ==
    /\ \/ pc[p] = "f_commit"
       \/ pc[p] = "i_send" /\ todo[p] = {} /\ ~InForOperator(p)
    /\ sent_invitations' = sent_invitations \cup pend[p]
    /\ pend' = Set(pend, p, {})
    /\ slock' = Set(slock, p, {})
    /\ rowsh' = Set(rowsh, p, {})
    /\ IF cont[p] = "e_invite2"
       THEN /\ pc' = Set(pc, p, "f_select")
            /\ who' = Set(who, p, op[p].client)
            /\ cont' = Set(cont, p, "x_commit")
       ELSE /\ pc' = Set(pc, p, cont[p])
            /\ UNCHANGED <<who, cont>>
    /\ UNCHANGED <<pairingVars, op, res, seen, notices, todo, sent, calls>>

\* PostgreSQL aborts a transaction it finds on a cycle of lock waits: the
\* waiting statement raises.  In _invite_operator_to_client the `except`
\* branch deletes the message just sent before raising again.
DeadlockAbort(p) ==
    /\ Deadlocked(p)
    /\ IF pc[p] = "i_insert"
       THEN Raise(p, FALSE, DeleteMessage(notices, sent[p]))
       ELSE Raise(p, TRUE, notices)

----------------------------------------------------------------------------
Next ==
    \E p \in Procs :
        \/ Call(p)
        \/ Return(p)
        \/ LockAll(p)
        \/ LockedRead(p)
        \/ RequestLock(p)
        \/ RequestCheck(p)
        \/ RequestInsert(p)
        \/ BeginLock(p)
        \/ BeginCheckClient(p)
        \/ BeginCheckOperator(p)
        \/ BeginUpsert(p)
        \/ EndDelete(p)
        \/ EndDeleteRow(p)
        \/ ClearInvitations(p)
        \/ InviteToClientLock(p)
        \/ InviteToClientSelect(p)
        \/ InviteForOperatorSelect(p)
        \/ InviteForOperatorLock(p)
        \/ SendInvitation(p)
        \/ RecordInvitation(p)
        \/ RequestersCommit(p)
        \/ InvitationsCommit(p)
        \/ DeadlockAbort(p)
        \/ Exit(p)

Spec == Init /\ [][Next]_vars

(* PrettyCursor's exit is `finally: cursor.close(); conn.commit();          *)
(* conn.close()`, three statements in a row.  The Coordinator calls again,  *)
(* now with a cursor.close() or a conn.commit() that may raise at the exit  *)
(* of the outer session: the statements after the failing one are skipped,  *)
(* and the connection stays open until the interpreter finalizes it.        *)

\* cursor.close() raises: conn.commit() and conn.close() do not run, the
\* transaction stays open with its locks and its writes.
CursorCloseFails(p) ==
    /\ pc[p] = "x_commit"
    /\ pc' = Set(pc, p, "unclosed")
    /\ res' = Set(res, p, "EXCEPTION")
    /\ UNCHANGED <<pairingVars, op, seen, ledgerVars, calls>>

\* conn.commit() raises: the server has ended the transaction without
\* committing it; conn.close() does not run.
CommitFails(p) ==
    /\ pc[p] = "x_commit"
    /\ tlock' = Set(tlock, p, {})
    /\ wr' = Set(wr, p, NoWrite)
    /\ pc' = Set(pc, p, "unclosed")
    /\ res' = Set(res, p, "EXCEPTION")
    /\ UNCHANGED <<conversations, op, seen, ledgerVars, calls>>

\* The connection object is finalized: the socket is closed and the server
\* rolls back what was open.
Finalize(p) ==
    /\ pc[p] = "unclosed"
    /\ tlock' = Set(tlock, p, {})
    /\ wr' = Set(wr, p, NoWrite)
    /\ pc' = Set(pc, p, "done")
    /\ UNCHANGED <<conversations, op, res, seen, ledgerVars, calls>>

NextFaulty ==
    \/ Next
    \/ \E p \in Procs :
        \/ CursorCloseFails(p)
        \/ CommitFails(p)
        \/ Finalize(p)

SpecFaulty == Init /\ [][NextFaulty]_vars

(* get_conversing_with_plocking, used next to the Coordinator calls: the     *)
(* caller reads the pair of a user with SELECT ... FOR SHARE and stays in   *)
(* the context for a while; the rows read stay locked until it leaves.      *)

PinCalls == {[kind |-> "pin", client |-> u, operator |-> None] : u \in Users}

PinCall(p) ==
    /\ pc[p] = "idle"
    /\ calls < MaxCalls
    /\ \A q \in Procs : q < p => pc[q] # "idle"
    /\ \E o \in PinCalls : op' = Set(op, p, o)
    /\ pc' = Set(pc, p, "p_read")
    /\ calls' = calls + 1
    /\ UNCHANGED <<res, seen, pairingVars, ledgerVars>>

\* _get_conversing_for_share: the SELECT locks every row it returns
PinRead(p) ==
    /\ pc[p] = "p_read"
    /\ CanRead(p, op[p].client)
    /\ \E conversing \in GetConversing(conversations, op[p].client) :
        seen' = Set(seen, p, conversing)
    /\ rowsh' = Set(rowsh, p, ForShare(Touching(conversations, op[p].client)))
    /\ res' = Set(res, p, "read")
    /\ pc' = Set(pc, p, "p_held")
    /\ UNCHANGED <<pairingVars, op, sent_invitations, notices, slock, who, todo, sent,
                   pend, cont, calls>>

\* The context is left: the transaction commits and the row locks go.
PinExit(p) ==
    /\ pc[p] = "p_held"
    /\ rowsh' = Set(rowsh, p, {})
    /\ pc' = Set(pc, p, "done")
    /\ UNCHANGED <<pairingVars, op, res, seen, sent_invitations, notices, slock, who,
                   todo, sent, pend, cont, calls>>

NextPin ==
    \/ Next
    \/ \E p \in Procs :
        \/ PinCall(p)
        \/ PinRead(p)
        \/ PinExit(p)

SpecPin == Init /\ [][NextPin]_vars

(* The same Coordinator calls with a transport that delivers every notice.  *)
NextReliable ==
    \E p \in Procs :
        \/ Call(p)
        \/ Return(p)
        \/ LockAll(p)
        \/ LockedRead(p)
        \/ RequestLock(p)
        \/ RequestCheck(p)
        \/ RequestInsert(p)
        \/ BeginLock(p)
        \/ BeginCheckClient(p)
        \/ BeginCheckOperator(p)
        \/ BeginUpsert(p)
        \/ EndDelete(p)
        \/ EndDeleteRow(p)
        \/ ClearInvitations(p)
        \/ InviteToClientLock(p)
        \/ InviteToClientSelect(p)
        \/ InviteForOperatorSelect(p)
        \/ InviteForOperatorLock(p)
        \/ SendInvitationDelivered(p)
        \/ RecordInvitation(p)
        \/ RequestersCommit(p)
        \/ InvitationsCommit(p)
        \/ DeadlockAbort(p)
        \/ Exit(p)

SpecReliable == Init /\ [][NextReliable]_vars


----------------------------------------------------------------------------
(* Two begin calls racing: callers 1 and 2 each run one                     *)
(* begin_conversation_with_locking, started at the same time.  Some clients *)
(* have a request pending (with every operator invited, or with every       *)
(* delivery failed); the operators the two calls name are free.             *)

Racers == {1, 2}

InvitedAll(requesters) ==
    {<<o, c, 1>> : o \in Operators, c \in requesters} \ {<<u, u, 1>> : u \in Users}

InitRace ==
    /\ \E requesters \in SUBSET Users :
        /\ conversations = {<<c, None>> : c \in requesters}
        /\ sent_invitations \in {{}, InvitedAll(requesters)}
        /\ notices = sent_invitations
        /\ op \in [Procs -> {[kind |-> "begin", client |-> c, operator |-> o] :
                                c \in Users, o \in Users \ requesters} \cup {NoOp}]
    /\ \A p \in Procs : op[p] = NoOp <=> p \notin Racers
    /\ pc = [p \in Procs |-> IF p \in Racers THEN "b_lock" ELSE "idle"]
    /\ res = [p \in Procs |-> "-"]
    /\ seen = [p \in Procs |-> NoConversing]
    /\ tlock = [p \in Procs |-> {}]
    /\ wr = [p \in Procs |-> NoWrite]
    /\ slock = [p \in Procs |-> {}]
    /\ rowsh = [p \in Procs |-> {}]
    /\ who = [p \in Procs |-> None]
    /\ todo = [p \in Procs |-> {}]
    /\ sent = [p \in Procs |-> <<>>]
    /\ pend = [p \in Procs |-> {}]
    /\ cont = [p \in Procs |-> "-"]
    /\ calls = MaxCalls

NextRace ==
    \E p \in Procs :
        \/ BeginLock(p)
        \/ BeginCheckClient(p)
        \/ BeginCheckOperator(p)
        \/ BeginUpsert(p)
        \/ ClearInvitations(p)
        \/ DeadlockAbort(p)
        \/ Exit(p)

SpecRace == InitRace /\ [][NextRace]_vars

----------------------------------------------------------------------------
(* The InvitationsController on its own: callers invoke invite_to_client,   *)
(* invite_for_operator, clear_invitations_to_client and                     *)
(* clear_invitations_for_operator directly, in any order and concurrently,  *)
(* over a fixed conversations table with some requests pending and possibly *)
(* one conversation going on.                                               *)

LedgerCalls ==
    {[kind |-> k, client |-> c, operator |-> None] :
        k \in {"invite_to_client", "clear_invitations_to_client"}, c \in Users}
    \cup {[kind |-> k, client |-> None, operator |-> o] :
        k \in {"invite_for_operator", "clear_invitations_for_operator"}, o \in Operators}

LedgerFirstPc(kind) ==
    CASE kind = "invite_to_client" -> "i_lock"
      [] kind = "invite_for_operator" -> "f_select"
      [] kind = "clear_invitations_to_client" -> "c_client"
      [] kind = "clear_invitations_for_operator" -> "c_operator"

LedgerCall(p) ==
    /\ pc[p] = "idle"
    /\ calls < MaxCalls
    /\ \A q \in Procs : q < p => pc[q] # "idle"
    /\ \E o \in LedgerCalls :
        /\ op' = Set(op, p, o)
        /\ pc' = Set(pc, p, LedgerFirstPc(o.kind))
        /\ who' = Set(who, p, IF o.client # None THEN o.client ELSE o.operator)
    /\ cont' = Set(cont, p, "done")
    /\ calls' = calls + 1
    /\ UNCHANGED <<res, seen, pairingVars, sent_invitations, notices, slock, rowsh,
                   todo, sent, pend>>

InitLedger ==
    /\ \E requesters \in SUBSET Users :
        \E paired \in {{}} \cup {{<<c, o>>} : c \in Users \ requesters,
                                             o \in Operators \ requesters} :
            conversations = {<<c, None>> : c \in requesters} \cup paired
    /\ sent_invitations = {}
    /\ notices = {}
    /\ pc = [p \in Procs |-> "idle"]
    /\ op = [p \in Procs |-> NoOp]
    /\ res = [p \in Procs |-> "-"]
    /\ seen = [p \in Procs |-> NoConversing]
    /\ tlock = [p \in Procs |-> {}]
    /\ wr = [p \in Procs |-> NoWrite]
    /\ slock = [p \in Procs |-> {}]
    /\ rowsh = [p \in Procs |-> {}]
    /\ who = [p \in Procs |-> None]
    /\ todo = [p \in Procs |-> {}]
    /\ sent = [p \in Procs |-> <<>>]
    /\ pend = [p \in Procs |-> {}]
    /\ cont = [p \in Procs |-> "-"]
    /\ calls = 0

NextLedger ==
    \E p \in Procs :
        \/ LedgerCall(p)
        \/ Return(p)
        \/ ClearInvitations(p)
        \/ InviteToClientLock(p)
        \/ InviteToClientSelect(p)
        \/ InviteForOperatorSelect(p)
        \/ InviteForOperatorLock(p)
        \/ SendInvitation(p)
        \/ RecordInvitation(p)
        \/ RequestersCommit(p)
        \/ InvitationsCommit(p)
        \/ DeadlockAbort(p)

SpecLedger == InitLedger /\ [][NextLedger]_vars

(* The same callers with a transport that delivers every notice.            *)
NextDelivered ==
    \E p \in Procs :
        \/ LedgerCall(p)
        \/ Return(p)
        \/ ClearInvitations(p)
        \/ InviteToClientLock(p)
        \/ InviteToClientSelect(p)
        \/ InviteForOperatorSelect(p)
        \/ InviteForOperatorLock(p)
        \/ SendInvitationDelivered(p)
        \/ RecordInvitation(p)
        \/ RequestersCommit(p)
        \/ InvitationsCommit(p)
        \/ DeadlockAbort(p)

SpecDelivered == InitLedger /\ [][NextDelivered]_vars

----------------------------------------------------------------------------
(* Two conversations end while a request is pending: callers 1 and 2 each   *)
(* run one end_conversation_or_cancel_request_with_plocking, started at the *)
(* same time, with a transport that delivers every notice.  The table is    *)
(* the one left by begin(1, 1), begin(2, 2), request(3): both operators are *)
(* in a conversation, so the request of 3 found nobody to invite.           *)

Enders == {1, 2}

EndsTable == {<<1, 1>>, <<2, 2>>, <<3, None>>}

InitEnds ==
    /\ conversations = EndsTable
    /\ sent_invitations = {}
    /\ notices = {}
    /\ op \in [Procs -> {[kind |-> "end", client |-> c, operator |-> None] : c \in Users}
                            \cup {NoOp}]
    /\ \A p \in Procs : op[p] = NoOp <=> p \notin Enders
    /\ pc = [p \in Procs |-> IF p \in Enders THEN "e_delete" ELSE "idle"]
    /\ res = [p \in Procs |-> "-"]
    /\ seen = [p \in Procs |-> NoConversing]
    /\ tlock = [p \in Procs |-> {}]
    /\ wr = [p \in Procs |-> NoWrite]
    /\ slock = [p \in Procs |-> {}]
    /\ rowsh = [p \in Procs |-> {}]
    /\ who = [p \in Procs |-> None]
    /\ todo = [p \in Procs |-> {}]
    /\ sent = [p \in Procs |-> <<>>]
    /\ pend = [p \in Procs |-> {}]
    /\ cont = [p \in Procs |-> "-"]
    /\ calls = MaxCalls

NextEnds ==
    \E p \in Procs :
        \/ EndDelete(p)
        \/ EndDeleteRow(p)
        \/ ClearInvitations(p)
        \/ InviteForOperatorSelect(p)
        \/ InviteForOperatorLock(p)
        \/ SendInvitationDelivered(p)
        \/ RecordInvitation(p)
        \/ RequestersCommit(p)
        \/ InvitationsCommit(p)
        \/ DeadlockAbort(p)
        \/ Exit(p)

SpecEnds == InitEnds /\ [][NextEnds]_vars

----------------------------------------------------------------------------
(* Properties of the pairing store                                          *)

Quiescent == \A p \in Procs : pc[p] \in {"idle", "done"}

Returned(p) == pc[p] = "done"

\* C1: at every moment each user is the operator of at most one committed
\* pairing record.
C1_OperatorInAtMostOneRecord ==
    \A r1, r2 \in conversations :
        (r1[2] # None /\ r1[2] = r2[2]) => r1 = r2

\* An operator is serving a conversation and a begin naming the same
\* operator for another client has been turned down.
C1_Witness ==
    \E p \in Procs :
        /\ Returned(p)
        /\ res[p] = "OPERATOR_OPERATING"
        /\ \E r \in conversations : r[2] = op[p].operator /\ r[1] # op[p].client

\* C2: no user is at once the operator of one committed pairing record and
\* the client of a different one.
C2_NotOperatorAndClientElsewhere ==
    \A r1, r2 \in conversations :
        (r1 # r2 /\ r1[2] # None) => r1[2] # r2[1]

\* A user who serves a conversation has been refused as the client of a
\* begin, and a user who is a client has been refused as an operator.
C2_Witness ==
    /\ \E r \in conversations : r[2] # None
    /\ \E p \in Procs :
        /\ Returned(p)
        /\ res[p] \in {"CLIENT_IS_OPERATING", "OPERATOR_IS_CLIENT", "OPERATOR_REQUESTING"}

\* Both racers name the same client and two different operators; the client
\* is free or requesting and is neither of the operators.
SameClientRace ==
    /\ op[1].client = op[2].client
    /\ op[1].operator # op[2].operator
    /\ op[1].client \notin {op[1].operator, op[2].operator}

\* Both racers name the same operator and two different clients, neither of
\* them the operator.
SameOperatorRace ==
    /\ op[1].operator = op[2].operator
    /\ op[1].client # op[2].client
    /\ op[1].operator \notin {op[1].client, op[2].client}

BothReturned == \A p \in Racers : Returned(p)

\* C3: of two concurrent begin(c, o1) and begin(c, o2) with o1 # o2 and
\* both operators free, at most one returns OK, and the committed record of
\* c names the operator of the call that returned OK.
C3_AtMostOneWinner ==
    SameClientRace =>
        /\ ~(res[1] = "OK" /\ res[2] = "OK")
        /\ \A p \in Racers :
            (BothReturned /\ res[p] = "OK") =>
                {r \in conversations : r[1] = op[p].client}
                    = {<<op[p].client, op[p].operator>>}

\* Both calls are over, one has won and the record is the winner's.
C3_Witness ==
    /\ SameClientRace
    /\ BothReturned
    /\ \E p \in Racers :
        /\ res[p] = "OK"
        /\ <<op[p].client, op[p].operator>> \in conversations
        /\ \E q \in Racers : res[q] = "CLIENT_ALREADY_PAIRED"

\* C4: in the race of begin(c, o1) and begin(c, o2) every call returns a
\* result code - the losing one CLIENT_ALREADY_PAIRED or an operator-busy
\* code - and none ends with an exception such as a deadlock abort.
C4_LoserGetsResultCode ==
    (SameClientRace /\ BothReturned) =>
        \A p \in Racers :
            res[p] \in {"OK", "CLIENT_ALREADY_PAIRED", "OPERATOR_REQUESTING",
                        "OPERATOR_IS_CLIENT", "OPERATOR_OPERATING"}

\* C5: of two concurrent begin(c1, o) and begin(c2, o) with c1 # c2 and o
\* free, exactly one returns OK and the other returns OPERATOR_OPERATING.
C5_ExactlyOneWinner ==
    (SameOperatorRace /\ BothReturned) =>
        \E p, q \in Racers :
            /\ p # q
            /\ res[p] = "OK"
            /\ res[q] = "OPERATOR_OPERATING"

\* A caller is inside a check-then-write section from the moment its LOCK
\* TABLE (or, for end, its DELETE) is granted until its transaction ends.
InSection(p) ==
    /\ op[p].kind \in {"request", "begin", "end"}
    /\ tlock[p] # {}

\* C6: the table lock serializes begin, request and end: no two callers are
\* inside their check-then-write sections at the same time.
C6_SectionsSerialized ==
    \A p, q \in Procs : (InSection(p) /\ InSection(q)) => p = q

\* C7: while a caller holds lock_all, no insert, update or delete of a
\* pairing record by another transaction takes effect, and a user it found
\* in no record inside the lock is still in none until the lock is released.
C7_LockAllFreezesRecords ==
    /\ [](\A p \in Procs :
            (op[p].kind = "lock" /\ pc[p] = "x_commit" /\ seen[p] = NoConversing)
                => Touching(conversations, op[p].client) = {})
    /\ [][\A p \in Procs :
            (op[p].kind = "lock" /\ SHARE \in tlock[p] /\ SHARE \in tlock'[p])
                => conversations' = conversations]_vars

\* A caller holds lock_all and has found its user in no record, while
\* another caller's INSERT for that very user waits for the lock.
C7_Witness ==
    \E p, q \in Procs :
        /\ op[p].kind = "lock"
        /\ pc[p] = "x_commit"
        /\ seen[p] = NoConversing
        /\ pc[q] \in {"r_insert", "b_upsert"}
        /\ op[q].client = op[p].client
        /\ p \in Blockers(q)

----------------------------------------------------------------------------
(* Properties of the invitation ledger                                      *)

\* C8: after any sequence of invite and retract calls of the ledger,
\* concurrent ones included, once no call is running the recorded message
\* handles are exactly the invitation notices delivered and not retracted.
C8_NoLeakedNotices ==
    Quiescent => notices = sent_invitations

\* Two callers delivered a notice for the same (operator, client) at the
\* same time; all calls are over and the ledger kept the second notice.
C8_Witness ==
    /\ Quiescent
    /\ \E i \in sent_invitations : i[3] > 1

\* A committed conversation <<c, o>> with a stale invitation: the ledger
\* holds a row naming c as the client or addressed to o.
Stale(r) ==
    /\ r[2] # None
    /\ \E i \in sent_invitations : i[2] = r[1] \/ i[1] = r[2]

\* C9: no observer sees a client c paired with an operator o while the
\* ledger still holds an invitation naming c or one addressed to o.
C9_NoStaleInvitationForPaired ==
    \A r \in conversations : ~Stale(r)

\* C9, for the observers that read the pairing through the store's own
\* reads (SELECT ... FOR SHARE, which waits while the record is being
\* deleted): a conversation whose record no running end has deleted has no
\* invitation naming its client and none addressed to its operator.
C9_NoStaleInvitationForPinnedPair ==
    \A r \in conversations \ UNION {wr[q].del : q \in Procs} : ~Stale(r)

\* A begin has returned OK and its pair is committed, its record touched by
\* no running end, while the ledger still holds invitations: those of
\* another pending request, addressed to another operator.
C9_Witness ==
    \E p \in Procs :
        /\ Returned(p)
        /\ op[p].kind = "begin"
        /\ res[p] = "OK"
        /\ <<op[p].client, op[p].operator>>
                \in conversations \ UNION {wr[q].del : q \in Procs}
        /\ sent_invitations # {}

\* C10: once no call is running, every row of the ledger names a client
\* whose request is pending.
C10_InvitationsNamePendingRequesters ==
    Quiescent => \A i \in sent_invitations : <<i[2], None>> \in conversations

\* A request was invited, taken or cancelled, and the ledger still holds
\* invitations: those of another pending request.
C10_Witness ==
    /\ Quiescent
    /\ sent_invitations # {}
    /\ \E p \in Procs : res[p] \in {"OK", "CANCELLED", "ENDED"}

----------------------------------------------------------------------------
(* Outcomes of the pairing store's operations                               *)

\* The outcome of begin(c, o) on a pairing table, by the order of checks.
BeginOutcome(table, c, o) ==
    IF \E r \in table : r[2] = c THEN "CLIENT_IS_OPERATING"
    ELSE IF \E r \in Touching(table, o) : r[2] = None THEN "OPERATOR_REQUESTING"
    ELSE IF \E r \in Touching(table, o) : r[1] = o THEN "OPERATOR_IS_CLIENT"
    ELSE IF \E r \in Touching(table, o) : r[2] = o THEN "OPERATOR_OPERATING"
    ELSE IF \E r \in table : r[1] = c /\ r[2] # None THEN "CLIENT_ALREADY_PAIRED"
    ELSE "OK"

\* The call has yielded its result and its transaction is still open.
Yielded(p) == res[p] \notin {"-", "EXCEPTION"} /\ pc[p] \notin {"idle", "done"}

\* C13: begin(c, o) returns the first applicable outcome in the order
\* CLIENT_IS_OPERATING, OPERATOR_REQUESTING, OPERATOR_IS_CLIENT,
\* OPERATOR_OPERATING, CLIENT_ALREADY_PAIRED, OK; on OK the record of c
\* becomes (c, o), on any other outcome nothing is written, and a record
\* with an operator is never replaced.
C13_BeginOutcomeOrder ==
    \A p \in Procs :
        (op[p].kind = "begin" /\ Yielded(p)) =>
            LET c == op[p].client
                o == op[p].operator
            IN  /\ res[p] = BeginOutcome(conversations, c, o)
                /\ res[p] = "OK" =>
                    /\ wr[p].ins = {<<c, o>>}
                    /\ wr[p].del = {r \in conversations : r[1] = c}
                    /\ \A r \in wr[p].del : r[2] = None
                /\ res[p] # "OK" => wr[p] = NoWrite

\* A begin has been refused with the last check of the order: the client is
\* already paired and every earlier check has passed.
C13_Witness ==
    \E p \in Procs :
        /\ op[p].kind = "begin"
        /\ Yielded(p)
        /\ res[p] = "CLIENT_ALREADY_PAIRED"
        /\ \E r \in conversations : r[1] = op[p].client /\ r[2] # None

\* C14: request(c) returns created and inserts (c, null) exactly when no
\* record touches c, already_requesting exactly when the record touching c
\* has a null operator, and already_paired in every other case.
C14_RequestOutcome ==
    \A p \in Procs :
        (op[p].kind = "request" /\ Yielded(p)) =>
            LET touching == Touching(conversations, op[p].client) IN
            /\ res[p] = "created" <=> touching = {}
            /\ res[p] = "already_requesting" <=>
                    (touching # {} /\ \A r \in touching : r[2] = None)
            /\ res[p] = "already_paired" <=> (\E r \in touching : r[2] # None)
            /\ wr[p] = IF res[p] = "created"
                       THEN [del |-> {}, ins |-> {<<op[p].client, None>>}]
                       ELSE NoWrite

\* A request by a user who is the operator of a conversation has been
\* answered already_paired.
C14_Witness ==
    \E p \in Procs :
        /\ op[p].kind = "request"
        /\ Yielded(p)
        /\ res[p] = "already_paired"
        /\ \E r \in conversations : r[2] = op[p].client /\ r[1] # op[p].client

\* C15: end_or_cancel(c) removes the record keyed by client c if there is
\* one and returns NONE when there was none, CANCELLED when the removed
\* record had a null operator and ENDED(o) when it had operator o; records
\* keyed by other clients are unchanged.
C15_EndOutcome ==
    \A p \in Procs :
        (op[p].kind = "end" /\ Yielded(p)) =>
            LET keyed == {r \in conversations : r[1] = op[p].client} IN
            /\ wr[p] = [del |-> keyed, ins |-> {}]
            /\ res[p] = "NONE" <=> keyed = {}
            /\ res[p] = "CANCELLED" <=> (\E r \in keyed : r[2] = None)
            /\ res[p] = "ENDED" <=> (\E r \in keyed : r[2] # None /\ seen[p] = r)

\* An end has removed a conversation and reported its operator while the
\* table holds a record keyed by another client.
C15_Witness ==
    \E p \in Procs :
        /\ op[p].kind = "end"
        /\ Yielded(p)
        /\ res[p] = "ENDED"
        /\ seen[p][2] # None
        /\ \E r \in conversations : r[1] # op[p].client

\* The caller's outer transaction commits in this step and the call is over.
Completes(p) == pc[p] = "x_commit" /\ pc'[p] = "done"

\* C16: with no operation in between, snapshot(c) right after request(c)
\* returned created is (c, null), and right after begin(c, o) returned OK
\* snapshot(c) and snapshot(o) are both (c, o).
C16_SnapshotAfterCreate ==
    [][\A p \in Procs :
        Completes(p) =>
            LET c == op[p].client
                o == op[p].operator
            IN  /\ (op[p].kind = "request" /\ res[p] = "created") =>
                    GetConversing(conversations', c) = {<<c, None>>}
                /\ (op[p].kind = "begin" /\ res[p] = "OK") =>
                    /\ GetConversing(conversations', c) = {<<c, o>>}
                    /\ GetConversing(conversations', o) = {<<c, o>>}]_vars

\* A begin that returned OK is over, and the read of its operator gives the
\* new pair.
C16_Witness ==
    \E p \in Procs :
        /\ Returned(p)
        /\ op[p].kind = "begin"
        /\ res[p] = "OK"
        /\ op[p].client # op[p].operator
        /\ GetConversing(conversations, op[p].operator) = {<<op[p].client, op[p].operator>>}

\* C17: for every user c and every prior pairing state, snapshot(c) right
\* after end_or_cancel(c) completed, with no operation in between, is
\* (null, null).
C17_SnapshotAfterEnd ==
    [][\A p \in Procs :
        (Completes(p) /\ op[p].kind = "end") =>
            GetConversing(conversations', op[p].client) = {NoConversing}]_vars

\* c is the operator of a conversation of another client.
Operating(c) == \E r \in conversations : r[2] = c /\ r[1] # c

\* C17, for the callers the operation is meant for: for every user c who is
\* not the operator of another client's conversation, snapshot(c) right
\* after end_or_cancel(c) completed is (null, null).
C17_SnapshotAfterEndOfClient ==
    [][\A p \in Procs :
        (Completes(p) /\ op[p].kind = "end" /\ ~Operating(op[p].client)) =>
            GetConversing(conversations', op[p].client) = {NoConversing}]_vars

\* An end that removed a conversation is over and its client is in no record.
C17_Witness ==
    \E p \in Procs :
        /\ Returned(p)
        /\ op[p].kind = "end"
        /\ res[p] = "ENDED"
        /\ GetConversing(conversations, op[p].client) = {NoConversing}

----------------------------------------------------------------------------
(* Who holds invitations                                                    *)

\* u is in some pairing record, a pending request included.
InAnyRecord(u) == Touching(conversations, u) # {}

\* u is in a conversation: a record with an operator, in either role.
InConversation(u) == \E r \in Touching(conversations, u) : r[2] # None

\* C11: once no call is running, no row of the ledger is addressed to an
\* operator who appears in a pairing record as operator or as client,
\* pending requests included.
C11_NoInvitationForBusyOperator ==
    Quiescent => \A i \in sent_invitations : ~InAnyRecord(i[1])

\* C11, with the availability the program uses: once no call is running, no
\* row of the ledger is addressed to an operator who is in a conversation,
\* as its operator or as its client.  An operator whose own request is
\* pending keeps and receives invitations.
C11_NoInvitationForConversingOperator ==
    Quiescent => \A i \in sent_invitations : ~InConversation(i[1])

\* No call is running, a begin has paired an operator, and the ledger still
\* holds invitations, all of them addressed elsewhere.
C11_Witness ==
    /\ Quiescent
    /\ \E r \in conversations : r[2] # None /\ is_operator(r[2])
    /\ sent_invitations # {}
    /\ \E p \in Procs : op[p].kind = "begin" /\ res[p] = "OK"

\* invite_to_client has just selected the operators it will send to.
Selects(p) == pc[p] = "i_query" /\ pc'[p] = "i_send"

Recipients(pairs) == {pair[1] : pair \in pairs}

HoldsInvitation(o, c) == \E i \in sent_invitations : i[1] = o /\ i[2] = c

\* C18: invite_client(c) sends a notice to exactly the users who are
\* operators, are not c, appear in no pairing record (pending requests
\* included) and hold no live invitation for c.
C18_InvitesFreeOperators ==
    [][\A p \in Procs :
        Selects(p) =>
            Recipients(todo'[p]) =
                {u \in Users : /\ is_operator(u)
                               /\ u # who[p]
                               /\ ~InAnyRecord(u)
                               /\ ~HoldsInvitation(u, who[p])}]_vars

\* C18, with the availability the program uses: invite_client(c) sends a
\* notice to exactly the users who are operators, are not c, are in no
\* conversation (they may have a request of their own pending) and hold no
\* live invitation for c.
C18_InvitesNonConversingOperators ==
    [][\A p \in Procs :
        Selects(p) =>
            Recipients(todo'[p]) =
                {u \in Users : /\ is_operator(u)
                               /\ u # who[p]
                               /\ ~InConversation(u)
                               /\ ~HoldsInvitation(u, who[p])}]_vars

\* invite_to_client is about to send to an operator whose own request is
\* pending, and has left out an operator who is in a conversation.
C18_Witness ==
    \E p \in Procs :
        /\ op[p].kind = "invite_to_client"
        /\ pc[p] = "i_send"
        /\ \E pair \in todo[p] : <<pair[1], None>> \in conversations
        /\ \E u \in Operators \ Recipients(todo[p]) : u # who[p] /\ InConversation(u)

\* invite_for_operator leaves its `with` block normally.
InviteForOperatorReturns(p) ==
    /\ op[p].kind = "invite_for_operator"
    /\ pc[p] = "f_commit"
    /\ pc'[p] = "done"

Between(rows, o, c) == {i \in rows : i[1] = o /\ i[2] = c}

\* C19: with a transport that delivers, invite_for_operator(o) leaves exactly
\* one ledger row (o, c) and exactly one outstanding notice for every client
\* c whose request is pending when it runs, and the rows it creates name
\* pending requesters only.
C19_InviteForOperatorCoversRequesters ==
    [][\A p \in Procs :
        InviteForOperatorReturns(p) =>
            /\ \A c \in Users :
                <<c, None>> \in conversations =>
                    /\ Cardinality(Between(sent_invitations', who[p], c)) = 1
                    /\ Cardinality(Between(notices', who[p], c)) = 1
            /\ \A i \in pend[p] : i[1] = who[p] /\ <<i[2], None>> \in conversations]_vars

\* invite_for_operator has returned after creating a row for one pending
\* requester while another client is in a conversation.
C19_Witness ==
    \E p \in Procs :
        /\ op[p].kind = "invite_for_operator"
        /\ pc[p] = "done"
        /\ res[p] # "EXCEPTION"
        /\ \E c \in Users :
            /\ <<c, None>> \in conversations
            /\ Between(sent_invitations, op[p].operator, c) # {}
        /\ \E r \in conversations : r[2] # None

\* clear_invitations_to_client / clear_invitations_for_operator runs.
Clears(p) == pc[p] \in {"c_client", "c_operator"} /\ pc'[p] = "done"

KeyedBy(p) ==
    {i \in sent_invitations :
        IF op[p].kind = "clear_invitations_to_client"
        THEN i[2] = op[p].client
        ELSE i[1] = op[p].operator}

C12_NoInvitationLost ==
    Quiescent =>
        \A c \in Users :
            <<c, None>> \in conversations =>
                \A o \in Operators :
                    (o # c /\ ~InAnyRecord(o)) => HoldsInvitation(o, c)

----------------------------------------------------------------------------
(* Failures inside the fan-out                                              *)

\* _invite_operator_to_client leaves its INSERT, by the statement's return or
\* by its exception.
LeavesInsert(p) == pc[p] = "i_insert" /\ pc'[p] # "i_insert"

\* C21: a delivered notice whose row is not recorded, because ON CONFLICT
\* dropped the INSERT or because the INSERT raised, is deleted at the
\* transport before _invite_operator_to_client is left, and in the second
\* case the exception is raised again.
C21_UnrecordedNoticeRetracted ==
    [][\A p \in Procs :
        LeavesInsert(p) =>
            /\ sent[p] \in pend'[p] \/ sent[p] \notin notices'
            /\ pc'[p] = "done" => (res'[p] = "EXCEPTION" /\ sent[p] \notin notices')
            /\ pc'[p] # "done" => res'[p] = res[p]]_vars

\* invite_for_operator has sent a notice for a requester the operator was
\* already invited to: the INSERT added nothing and one message is left.
C21_Witness ==
    \E p \in Procs :
        /\ op[p].kind = "invite_for_operator"
        /\ pc[p] = "i_send"
        /\ \E c \in Users :
            /\ <<c, None>> \in conversations
            /\ <<who[p], c>> \notin todo[p]
            /\ Between(pend[p], who[p], c) = {}
            /\ Between(sent_invitations, who[p], c) # {}
            /\ Cardinality(Between(notices, who[p], c)) = 1

\* send_invitation_callback returned None for one recipient of the loop.
SkipsRecipient(p) ==
    /\ pc[p] = "i_send"
    /\ pc'[p] = "i_send"
    /\ todo'[p] # todo[p]

\* C22: when the transport fails for one recipient, that recipient gets no
\* row and no message, the other recipients stay to be invited, the
\* transaction keeps its locks and its rows and the call does not raise; at
\* the end of the loop the rows of the recipients who were reached are
\* committed.
C22_DeliveryFailureSkipsOne ==
    [][\A p \in Procs :
        /\ SkipsRecipient(p) =>
            /\ \E pair \in todo[p] :
                /\ todo'[p] = todo[p] \ {pair}
                /\ Between(pend'[p], pair[1], pair[2]) = {}
            /\ notices' = notices
            /\ pend' = pend
            /\ sent_invitations' = sent_invitations
            /\ slock' = slock
            /\ res'[p] = res[p]
        /\ (pc[p] \in {"i_send", "f_commit"} /\ pc'[p] = "done" /\ res'[p] # "EXCEPTION") =>
            /\ pend[p] \subseteq sent_invitations'
            /\ pend[p] \subseteq notices']_vars

\* invite_to_client has returned with one of two free operators invited: the
\* delivery to the other failed.
C22_Witness ==
    /\ calls = 1
    /\ \E p \in Procs :
        /\ op[p].kind = "invite_to_client"
        /\ pc[p] = "done"
        /\ res[p] # "EXCEPTION"
        /\ Cardinality(sent_invitations) = 1
        /\ \A o \in Operators : o # op[p].client /\ ~InConversation(o)

----------------------------------------------------------------------------
(* The Coordinator keeps the ledger in step with the pairing store          *)

Naming(rows, c) == {i \in rows : i[2] = c}
AddressedTo(rows, o) == {i \in rows : i[1] = o}

\* C23: when begin_conversation(c, o) returns OK the ledger holds no row
\* naming client c and none addressed to operator o, and no message of such
\* a row is outstanding.
C23_BeginClearsInvitations ==
    [][\A p \in Procs :
        (Completes(p) /\ op[p].kind = "begin" /\ res[p] = "OK") =>
            /\ Naming(sent_invitations', op[p].client) = {}
            /\ AddressedTo(sent_invitations', op[p].operator) = {}
            /\ Naming(notices', op[p].client) = {}
            /\ AddressedTo(notices', op[p].operator) = {}]_vars

\* A begin has taken a pending request and is about to return OK while
\* another request is still pending.
C23_Witness ==
    \E p \in Procs :
        /\ op[p].kind = "begin"
        /\ res[p] = "OK"
        /\ pc[p] = "x_commit"
        /\ wr[p].del # {}
        /\ op[p].client # op[p].operator
        /\ \E r \in conversations : r[2] = None /\ r[1] # op[p].client

\* A step of p's request call after it yielded one of the two results that
\* are not `created`.
RefusedRequestStep(p) ==
    /\ op[p].kind = "request"
    /\ pc'[p] # pc[p]
    /\ res'[p] \in {"already_requesting", "already_paired"}

\* C24: with a transport that delivers, when request_conversation(c) returns
\* created every operator other than c who is in no pairing record holds
\* exactly one invitation naming c, one ledger row and one outstanding
\* message; a request that is not created sends and records nothing.
C24_RequestInvitesFreeOperators ==
    [][\A p \in Procs :
        /\ (Completes(p) /\ op[p].kind = "request" /\ res[p] = "created") =>
            \A o \in Operators :
                (o # op[p].client /\ ~InAnyRecord(o)) =>
                    /\ Cardinality(Between(sent_invitations', o, op[p].client)) = 1
                    /\ Cardinality(Between(notices', o, op[p].client)) = 1
        /\ RefusedRequestStep(p) =>
            /\ sent_invitations' = sent_invitations
            /\ notices' = notices
            /\ pend'[p] = {}]_vars

\* A created request is about to return with both operators invited.
C24_Witness ==
    \E p \in Procs :
        /\ op[p].kind = "request"
        /\ res[p] = "created"
        /\ pc[p] = "x_commit"
        /\ \A o \in Operators : Between(sent_invitations, o, op[p].client) # {}

\* C25: request_conversation(c) called while the request of c is pending
\* yields already_requesting, and on that result and on already_paired it
\* changes nothing: the pairing table and the ledger stay as they are and no
\* message is sent.
C25_RefusedRequestIsNoOp ==
    [][\A p \in Procs :
        /\ (op[p].kind = "request" /\ pc[p] = "r_check" /\ pc'[p] # "r_check"
                /\ <<op[p].client, None>> \in conversations) =>
            res'[p] = "already_requesting"
        /\ RefusedRequestStep(p) =>
            /\ conversations' = conversations
            /\ sent_invitations' = sent_invitations
            /\ notices' = notices
            /\ wr'[p] = NoWrite
            /\ pend'[p] = {}]_vars

\* A second request of a client whose request is pending has returned
\* already_requesting; the client's invitations are still those of the first.
C25_Witness ==
    \E p \in Procs :
        /\ Returned(p)
        /\ op[p].kind = "request"
        /\ res[p] = "already_requesting"
        /\ <<op[p].client, None>> \in conversations
        /\ Naming(sent_invitations, op[p].client) # {}
        /\ \A i \in Naming(sent_invitations, op[p].client) : i[3] = 1

\* Rows of conversations no running end has deleted.
Pinned(table) == table \ UNION {wr[q].del : q \in Procs}

\* C26: when end_or_cancel(c) cancelled a pending request, on return the
\* ledger holds no row naming c and no message naming c is outstanding, and
\* the call has removed no row naming another client.
C26_CancelClearsInvitations ==
    [][\A p \in Procs :
        /\ (Completes(p) /\ op[p].kind = "end" /\ res[p] = "CANCELLED") =>
            /\ Naming(sent_invitations', op[p].client) = {}
            /\ Naming(notices', op[p].client) = {}
        /\ (op[p].kind = "end" /\ pc[p] = "e_clear" /\ pc'[p] # "e_clear") =>
            /\ sent_invitations \ Naming(sent_invitations, op[p].client)
                    = sent_invitations' \ Naming(sent_invitations', op[p].client)
            /\ notices \ Naming(notices, op[p].client)
                    = notices' \ Naming(notices', op[p].client)]_vars

\* A cancelled request is about to return, and the invitations of another
\* pending request are still in the ledger.
C26_Witness ==
    \E p \in Procs :
        /\ op[p].kind = "end"
        /\ res[p] = "CANCELLED"
        /\ pc[p] = "x_commit"
        /\ \E i \in sent_invitations : i[2] # op[p].client

\* An end that removed a conversation commits and returns.
ReturnsEnded(p) == Completes(p) /\ op[p].kind = "end" /\ res[p] = "ENDED"

C28_EndReinvitesOperatorClient ==
    [][\A p \in Procs :
        ReturnsEnded(p) =>
            LET c == seen[p][1]
                o == seen[p][2]
            IN  /\ is_operator(c) =>
                    \A c2 \in Users :
                        <<c2, None>> \in Pinned(conversations) =>
                            Between(sent_invitations', c, c2) # {}
                /\ (~is_operator(c) /\ c # o) =>
                    /\ AddressedTo(sent_invitations', c) = {}
                    /\ AddressedTo(notices', c) = {}]_vars

\* A conversation whose client is an operator, and whose operator is another
\* user, has ended while a request was pending: the client is invited to it.
C28_Witness ==
    \E p \in Procs :
        /\ op[p].kind = "end"
        /\ res[p] = "ENDED"
        /\ pc[p] = "x_commit"
        /\ is_operator(seen[p][1])
        /\ seen[p][1] # seen[p][2]
        /\ \E c2 \in Users :
            /\ <<c2, None>> \in conversations
            /\ Between(sent_invitations, seen[p][1], c2) # {}

----------------------------------------------------------------------------
(* PrettyCursor                                                             *)

\* An exception leaves p's call in this step.
Raises(p) == res[p] # "EXCEPTION" /\ res'[p] = "EXCEPTION"

\* C29: when the body run inside a PrettyCursor session raises, no write
\* made through that session becomes visible to other transactions: the
\* committed tables are after the exception what they were before it.
C29_RollbackOnException ==
    [][\A p \in Procs :
        Raises(p) =>
            /\ conversations' = conversations
            /\ sent_invitations' = sent_invitations]_vars

\* p's call is over: it has returned or raised.
CallOver(p) == pc[p] \in {"idle", "done", "unclosed"}

\* A connection p's call opened has not been closed.
ConnectionOpen(p) == pc[p] \notin {"idle", "done"}

HoldsLocks(p) ==
    \/ tlock[p] # {}
    \/ slock[p] # {}
    \/ rowsh[p] # {}
    \/ wr[p] # NoWrite
    \/ pend[p] # {}

\* C30: on every way out of a session, the normal one, an exception of the
\* body, a cursor.close() or a conn.commit() that raises, the connection is
\* closed and its locks are released when the call is over.
C30_ConnectionReleased ==
    \A p \in Procs : CallOver(p) => (~ConnectionOpen(p) /\ ~HoldsLocks(p))

----------------------------------------------------------------------------
(* Concurrency of the store's operations                                    *)

\* C31: no reachable state has transactions that hold the SHARE lock of
\* conversations (or of sent_invitations) and wait for one another to
\* release it before their own write: no caller is on a cycle of lock
\* waits.
C31_NoLockCycle ==
    \A p \in Procs : ~Deadlocked(p)

\* Callers p and q have both finished an end of the same client, whose
\* record was in the table when they were called.
SameRecordEnded(p, q) ==
    /\ p # q
    /\ \E r \in EndsTable : r[1] = op[p].client
    /\ Returned(p) /\ Returned(q)
    /\ op[p].kind = "end" /\ op[q].kind = "end"
    /\ op[p].client = op[q].client

\* p's end removed the record of its client and yielded the operator the
\* record had.
RemovedRecord(p) ==
    /\ seen[p] \in EndsTable
    /\ seen[p][1] = op[p].client
    /\ res[p] = IF seen[p][2] = None THEN "CANCELLED" ELSE "ENDED"

\* C32: of two concurrent end_or_cancel(c) calls for the same existing
\* record, exactly one yields CANCELLED or ENDED with the operator the
\* record had, the other yields NONE, and the record is gone.
C32_OneEndRemovesRecord ==
    \A p, q \in Procs :
        SameRecordEnded(p, q) =>
            /\ \/ RemovedRecord(p) /\ res[q] = "NONE"
               \/ RemovedRecord(q) /\ res[p] = "NONE"
            /\ ~ \E r \in conversations : r[1] = op[p].client

\* Two ends of the same conversation are over: one ended it, the other
\* found nothing.
C32_Witness ==
    \E p, q \in Procs :
        /\ SameRecordEnded(p, q)
        /\ res[p] = "ENDED"
        /\ res[q] = "NONE"

\* p is inside get_conversing_with_plocking and a record was returned.
Pins(p) == pc[p] = "p_held" /\ seen[p] # NoConversing

\* C33: while a caller is inside get_conversing_with_plocking(u) with a
\* record returned, that record stays in the table and no concurrent begin
\* or end has changed or deleted it, committed or not.
C33_PinnedRecordStays ==
    \A p \in Procs :
        Pins(p) =>
            /\ seen[p] \in conversations
            /\ \A q \in Procs : seen[p] \notin wr[q].del

\* A caller holds the record of a client while an end of that client waits
\* for the row.
C33_Witness ==
    \E p, q \in Procs :
        /\ Pins(p)
        /\ op[q].kind = "end"
        /\ pc[q] = "e_row"
        /\ op[q].client = seen[p][1]

\* The clients invite_for_operator still has to invite, is inviting, or has
\* invited in its open transaction.
FanOutClients(p) ==
    {pair[2] : pair \in todo[p]}
        \cup {i[2] : i \in pend[p]}
        \cup (IF sent[p] = <<>> THEN {} ELSE {sent[p][2]})

\* invite_for_operator is between its SELECT ... FOR SHARE and the end of
\* its loop.
FansOut(p) == InForOperator(p) /\ pc[p] \in {"f_lock", "i_send", "i_insert"}

\* C34: while invite_for_operator fans out, every client of the set it read
\* keeps its pending record, which no begin or end has changed or deleted;
\* and the rows the call commits name clients whose request is pending when
\* they are committed.
C34_RequestersFrozen ==
    [][\A p \in Procs :
        /\ FansOut(p) =>
            \A c \in FanOutClients(p) :
                /\ <<c, None>> \in conversations
                /\ \A q \in Procs : <<c, None>> \notin wr[q].del
        /\ (pc[p] = "f_commit" /\ pc'[p] # "f_commit") =>
            \A i \in pend[p] : <<i[2], None>> \in conversations']_vars

\* invite_for_operator is fanning out to a requester whose cancellation is
\* waiting for the row.
C34_Witness ==
    \E p, q \in Procs :
        /\ FansOut(p)
        /\ op[q].kind = "end"
        /\ pc[q] = "e_row"
        /\ op[q].client \in FanOutClients(p)

\* p holds the SHARE lock on sent_invitations before and after the step.
KeepsLedgerLock(p) == SHARE \in slock[p] /\ SHARE \in slock'[p]

\* q runs a DELETE ... RETURNING of sent_invitations in this step.
Retracts(q) ==
    /\ pc[q] \in {"b_clear1", "b_clear2", "b_clear3", "e_clear", "c_client", "c_operator"}
    /\ pc'[q] # pc[q]
    /\ res'[q] # "EXCEPTION"

----------------------------------------------------------------------------
(* Life of a pairing record                                                 *)

\* The committed record r is not in the table after the step because an end
\* of its client committed the DELETE.
DeletedByEnd(r) ==
    /\ \E p \in Procs : op[p].kind = "end" /\ r \in wr[p].del
    /\ ~ \E r2 \in conversations' : r2[1] = r[1]

\* The committed pending request r has been given an operator by a begin.
TakenByBegin(r) ==
    /\ r[2] = None
    /\ \E p \in Procs :
        /\ op[p].kind = "begin"
        /\ op[p].client = r[1]
        /\ wr[p].del = {r}
        /\ {r2 \in conversations' : r2[1] = r[1]} = {<<r[1], op[p].operator>>}

\* C36: in every step a record's operator changes only from NULL to a value;
\* a record with an operator keeps it until an end of its client deletes
\* the record, and no other operation removes a record.
C36_RecordLifecycle ==
    [][\A r \in conversations :
        r \notin conversations' => (DeletedByEnd(r) \/ TakenByBegin(r))]_vars

\* A begin naming another operator for a client who is in a conversation was
\* turned down, and the record has the operator it had.
C36_Witness ==
    \E p \in Procs :
        /\ Returned(p)
        /\ op[p].kind = "begin"
        /\ res[p] = "CLIENT_ALREADY_PAIRED"
        /\ \E r \in conversations :
            r[1] = op[p].client /\ r[2] # None /\ r[2] # op[p].operator

\* C37: end_or_cancel(u) for a user u who is the operator, not the client,
\* of a conversation does not end it: the call yields NONE, writes nothing,
\* and the record is where it was.
C37_OperatorCannotEnd ==
    \A p \in Procs :
        (op[p].kind = "end" /\ Yielded(p) /\ Operating(op[p].client)) =>
            /\ res[p] = "NONE"
            /\ wr[p] = NoWrite

\* An end called with the id of the operator of a conversation has yielded
\* NONE and the conversation goes on.
C37_Witness ==
    \E p \in Procs :
        /\ op[p].kind = "end"
        /\ pc[p] = "x_commit"
        /\ res[p] = "NONE"
        /\ Operating(op[p].client)

\* C38: no pairing record has its client as its operator, and no call
\* begin(u, u) yields OK.
C38_NoSelfPairing ==
    /\ \A r \in conversations : r[1] # r[2]
    /\ \A p \in Procs :
        (op[p].kind = "begin" /\ Yielded(p) /\ op[p].client = op[p].operator) =>
            res[p] # "OK"

\* C39: a Coordinator call that ends with an exception is all-or-nothing:
\* the step in which it raises commits neither its write to the pairing
\* table nor a ledger row, and no notice sent in the failed invitations
\* transaction stays with its recipient.
C39_AllOrNothing ==
    [][\A p \in Procs :
        Raises(p) =>
            /\ wr[p] # NoWrite => conversations' = conversations
            /\ sent_invitations' = sent_invitations
            /\ (pend[p] \cup ({sent[p]} \ {<<>>})) \cap notices' = {}]_vars

\* C40: no operator is invited to their own request: no row of the ledger,
\* committed or inserted and not yet committed, and no notice has its
\* operator as its client.
C40_NoSelfInvitation ==
    \A i \in sent_invitations \cup AllPending \cup notices : i[1] # i[2]

\* An end has re-invited its freed operator to the pending request of
\* another operator.
C40_Witness ==
    \E p \in Procs :
        /\ op[p].kind = "end"
        /\ \E i \in pend[p] : is_operator(i[2]) /\ i[1] # i[2]

====
